---- MODULE Spec2Model ----
(***************************************************************************)
(* Audio flashcard image generator: the flashcard store of App.tsx (image  *)
(* generation, bulk generation, JSON export and import) and the speech     *)
(* capture controller of the Card component.                               *)
(*                                                                         *)
(* JavaScript values are encoded as strings: a program string is itself,   *)
(* and null, undefined, true, false and the numbers are the sentinels      *)
(* below, which no program string equals.  A JavaScript object is a        *)
(* function from the keys it owns to values; a key it does not own reads   *)
(* as Undefined.                                                           *)
(***************************************************************************)
EXTENDS Integers, Sequences, FiniteSets, Bags, TLC

VARIABLES
    flashcards,      \* App state: the ordered collection of FlashcardItem objects
    error,           \* App state: the error banner, NoError or a message
    importUrl,       \* App state: the text of the URL input
    isImportingUrl,  \* App state: a URL import is running
    requests,        \* the bag of calls of generateImageFromPrompt that have not resolved
    runs,            \* the invocations of handleGenerateAll that have not returned
    reads,           \* number of FileReader reads started by handleImport and not finished
    fetches,         \* number of handleImportFromUrl invocations awaiting fetch
    parsing,         \* number of handleImportFromUrl invocations awaiting response.json()
    jobs,            \* the promise jobs queued: the runs whose awaited call has settled
                     \* and whose loop has not resumed yet, first to resume first
    download,        \* the artifact the step just taken offered for download, if any
    mounted          \* the mount effect of App has run

appVars == <<flashcards, error, importUrl, isImportingUrl, requests, runs, reads,
             fetches, parsing, jobs, download, mounted>>

VARIABLES
    supported,        \* isSpeechRecognitionSupported, fixed when the module loads
    isRecording,      \* Card state
    userTranscript,   \* Card state: <<>> for null, <<t>> for the transcript t
    comparisonResult, \* Card state: <<>> for null, <<r>> for the result r
    practiceError,    \* Card state: NoError or a message
    recognitionRef,   \* recognitionRef.current: a session, 0 for null
    sessions,         \* the SpeechRecognition objects the card has created
    lastClick         \* what the last call of handlePracticeClick did

cardVars == <<supported, isRecording, userTranscript, comparisonResult, practiceError,
              recognitionRef, sessions, lastClick>>

VARIABLES
    cmpOriginalText,  \* comparePronunciation: the reference text it is called with
    cmpSpokenText,    \* comparePronunciation: the transcript it is called with
    cmpResult,        \* comparePronunciation: <<>> before the call, <<r>> for its result r
    cmpPrevious       \* the call before this one: <<>> for none, else <<[spokenText, result]>>

cmpVars == <<cmpOriginalText, cmpSpokenText, cmpResult, cmpPrevious>>

vars == <<appVars, cardVars, cmpVars>>

----------------------------------------------------------------------------
(* Bounds *)

MaxRuns == 2          \* handleGenerateAll invocations running at once
MaxOutstanding == 2   \* generation calls outstanding at once
MaxReads == 1         \* file reads pending at once
MaxFetches == 1       \* URL fetches pending at once
MaxSessions == 3      \* SpeechRecognition objects created in one behaviour
MaxRefLen == 3        \* characters of a reference text given to the comparator
MaxSpokenLen == 3     \* characters of a transcript given to the comparator

----------------------------------------------------------------------------
(* JavaScript values *)

Null == "<null>"
Undefined == "<undefined>"
TrueV == "<true>"
FalseV == "<false>"
Infinity == "<Infinity>"
Num7 == "<7>"

\* o[k] of JavaScript: the value of an own key, undefined otherwise
Get(o, k) == IF k \in DOMAIN o THEN o[k] ELSE Undefined

\* ToBoolean of the values in use
Truthy(v) == v \notin {Undefined, Null, FalseV, ""}

\* { ...o, k: v }
Spread(o, k, v) == [x \in (DOMAIN o) \cup {k} |-> IF x = k THEN v ELSE o[x]]

IsLoading(card) == Get(card, "isLoading") = TrueV

----------------------------------------------------------------------------
(* JSON documents.  A document is the text of a file or of a response body, *)
(* kept as its syntax tree: malformed text, a value that is not an array,   *)
(* or an array of elements; an element is the literal null or an object     *)
(* whose members are literals.                                              *)

Lit(kind, s) == [lit |-> kind, s |-> s]

Malformed == [kind |-> "malformed", elems |-> <<>>]
NonArray == [kind |-> "object", elems |-> <<>>]
NoArtifact == [kind |-> "none", elems |-> <<>>]
Arr(es) == [kind |-> "array", elems |-> es]

NullElem == [kind |-> "null", members |-> <<>>]
Obj(ms) == [kind |-> "object", members |-> ms]

\* JSON.parse of one literal
ParseLit(l) ==
    CASE l.lit = "string" -> l.s
      [] l.lit = "null" -> Null
      [] l.lit = "bool" -> (IF l.s = "true" THEN TrueV ELSE FalseV)
      [] l.lit = "number" -> (IF l.s = "1e999" THEN Infinity ELSE Num7)

\* JSON.stringify of one value; a non-finite number is written as null
StringifyValue(v) ==
    CASE v = Null -> Lit("null", "")
      [] v = TrueV -> Lit("bool", "true")
      [] v = FalseV -> Lit("bool", "false")
      [] v = Infinity -> Lit("null", "")
      [] v = Num7 -> Lit("number", "7")
      [] OTHER -> Lit("string", v)

\* JSON.stringify of one object: a key whose value is undefined is left out
StringifyObject(o) ==
    Obj([k \in {x \in DOMAIN o : o[x] # Undefined} |-> StringifyValue(o[k])])

\* JSON.stringify(flashcards, null, 2)
JSONstringify(cards) == Arr([i \in 1..Len(cards) |-> StringifyObject(cards[i])])

\* JSON.parse of one object element
ParseObject(e) == [k \in DOMAIN e.members |-> ParseLit(e.members[k])]

\* JSON.parse of an array document (the elements that are objects)
JSONparse(doc) == [i \in 1..Len(doc.elems) |-> ParseObject(doc.elems[i])]

\* the validation with its second test forgotten: only id is required
LacksField_IdOnly(e) == "id" \notin DOMAIN e.members

\* item => typeof item.id === 'undefined' || typeof item.text === 'undefined'
LacksField(e) == ("id" \notin DOMAIN e.members) \/ ("text" \notin DOMAIN e.members)

\* What parsing and validating a document comes to: "ok", or the error thrown.
\* some() visits the elements in order and stops at the first that lacks a
\* field; reading .id of a null element throws a TypeError.
ImportOutcome(doc) ==
    IF doc.kind = "malformed" THEN "syntax"
    ELSE IF doc.kind # "array" THEN "structure"
    ELSE LET hits == {i \in 1..Len(doc.elems) :
                         doc.elems[i].kind = "null" \/ LacksField(doc.elems[i])}
         IN IF hits = {} THEN "ok"
            ELSE LET first == CHOOSE i \in hits : \A j \in hits : i <= j
                 IN IF doc.elems[first].kind = "null" THEN "type" ELSE "structure"

----------------------------------------------------------------------------
(* Error messages *)

Msg(kind, arg) == [kind |-> kind, arg |-> arg]
NoError == Msg("null", "")

----------------------------------------------------------------------------
(* The deck the mount effect builds from AUDIO_URLS *)

AUDIO_URLS == <<"sounds/apple.mp3", "sounds/red%20ball.mp3">>

\* the text derived from the file name of an audio URL
SeedText(url) ==
    CASE url = "sounds/apple.mp3" -> "Apple"
      [] url = "sounds/red%20ball.mp3" -> "Red ball"

parsedFlashcards ==
    [i \in 1..Len(AUDIO_URLS) |->
        [id |-> AUDIO_URLS[i], text |-> SeedText(AUDIO_URLS[i]),
         audioUrl |-> AUDIO_URLS[i], imageUrl |-> Null, isLoading |-> FalseV]]

\* the image references generateImageFromPrompt may resolve to
Images == {"data:image/png;base64,AAAA"}

----------------------------------------------------------------------------
(* The three mutations of the store, each a map over the whole collection *)

\* prev.map(card => card.id === id ? { ...card, isLoading: true } : card)
MarkLoading(cards, id) ==
    [i \in 1..Len(cards) |->
        IF Get(cards[i], "id") = id THEN Spread(cards[i], "isLoading", TrueV)
        ELSE cards[i]]

\* the success branch without its test of the id: every card gets the image
StoreImage_EveryCard(cards, id, imageUrl) ==
    [i \in 1..Len(cards) |->
        Spread(Spread(cards[i], "imageUrl", imageUrl), "isLoading", FalseV)]

\* prev.map(card => card.id === id ? { ...card, imageUrl, isLoading: false } : card)
StoreImage(cards, id, imageUrl) ==
    [i \in 1..Len(cards) |->
        IF Get(cards[i], "id") = id
        THEN Spread(Spread(cards[i], "imageUrl", imageUrl), "isLoading", FalseV)
        ELSE cards[i]]

\* the failure branch leaving the collection as it is
ClearLoading_Identity(cards, id) == cards

\* prev.map(card => card.id === id ? { ...card, isLoading: false } : card)
ClearLoading(cards, id) ==
    [i \in 1..Len(cards) |->
        IF Get(cards[i], "id") = id THEN Spread(cards[i], "isLoading", FalseV)
        ELSE cards[i]]

----------------------------------------------------------------------------
(* Image generation *)

\* !card.imageUrl && !card.isLoading (handleGenerateAll) and
\* !item.isLoading && !item.imageUrl (handleGenerateClick)
Eligible(card) == ~Truthy(Get(card, "imageUrl")) /\ ~Truthy(Get(card, "isLoading"))

\* an outstanding call: the card id and the prompt its handleGenerateImage
\* closed over, and the bulk run that awaits it (0 for a click)
Request(id, prompt, run) == [id |-> id, prompt |-> prompt, run |-> run]

\* handleGenerateImage without line 37, setError(null)
handleGenerateImage_KeepsError(st, id, prompt, run) ==
    [fc |-> MarkLoading(st.fc, id),
     err |-> st.err,
     reqs |-> st.reqs (+) SetToBag({Request(id, prompt, run)})]

\* The store as handleGenerateImage leaves it when it suspends at its await:
\* the card marked loading, the error cleared, the call outstanding.
handleGenerateImage(st, id, prompt, run) ==
    [fc |-> MarkLoading(st.fc, id),
     err |-> NoError,
     reqs |-> st.reqs (+) SetToBag({Request(id, prompt, run)})]

\* The store after the await of handleGenerateImage: the try branch when the
\* call resolved with an image, the catch branch when it rejected.
Completion(st, q, outcome) ==
    IF outcome \in Images
    THEN [fc |-> StoreImage(st.fc, q.id, outcome),
          err |-> st.err,
          reqs |-> st.reqs (-) SetToBag({q})]
    ELSE [fc |-> ClearLoading(st.fc, q.id),
          err |-> Msg("generate", q.prompt),
          reqs |-> st.reqs (-) SetToBag({q})]

\* the first position after `from` of the captured collection that the loop
\* of handleGenerateAll does not skip, 0 when there is none
NextEligible(snap, from) ==
    LET js == {j \in (from + 1)..Len(snap) : Eligible(snap[j])}
    IN IF js = {} THEN 0 ELSE CHOOSE j \in js : \A k \in js : j <= k

\* what the current collection holds for an id when a run reaches it
Observed(cards, id) ==
    [hadImage |-> \E i \in 1..Len(cards) :
                     Get(cards[i], "id") = id /\ Truthy(Get(cards[i], "imageUrl")),
     wasLoading |-> \E i \in 1..Len(cards) :
                     Get(cards[i], "id") = id /\ Truthy(Get(cards[i], "isLoading"))]

\* a slot of runs that holds no invocation
IdleRun == [snap |-> <<>>, pos |-> 0, pc |-> "idle", calls |-> <<>>,
            seen |-> [hadImage |-> FALSE, wasLoading |-> FALSE]]

\* The loop of handleGenerateAll from position `from` of its captured
\* collection to its next await or to its end: the run and the store after.
\* r is the run's index: the calls it dispatches carry it.  A run records the
\* positions it has called (calls) and what the current collection held for
\* the card of its last call when it reached it (seen).
handleGenerateAll(st, run, r, from) ==
    LET j == NextEligible(run.snap, from)
    IN IF j = 0
       THEN [run |-> IdleRun, st |-> st]
       ELSE [run |-> [run EXCEPT !.pc = "await", !.pos = j, !.calls = Append(@, j),
                          !.seen = Observed(st.fc, Get(run.snap[j], "id"))],
             st |-> handleGenerateImage(st, Get(run.snap[j], "id"),
                                        Get(run.snap[j], "text"), r)]

Store == [fc |-> flashcards, err |-> error, reqs |-> requests]

SetStore(st) ==
    /\ flashcards' = st.fc
    /\ error' = st.err
    /\ requests' = st.reqs

\* An event handler or a callback of another task starts only when the
\* promise jobs of the task before it have all run.
NoJobPending == jobs = <<>>

\* useEffect(() => { ... setFlashcards(parsedFlashcards) }, [])
MountEffect ==
    /\ NoJobPending
    /\ ~mounted
    /\ mounted' = TRUE
    /\ flashcards' = parsedFlashcards
    /\ download' = NoArtifact
    /\ UNCHANGED <<error, importUrl, isImportingUrl, requests, runs, reads, fetches>>
    /\ UNCHANGED <<parsing, jobs>>

\* a click on the Generate button of the i-th card
handleGenerateClick(i) ==
    /\ NoJobPending
    /\ mounted
    /\ i \in 1..Len(flashcards)
    /\ BagCardinality(requests) < MaxOutstanding
    /\ Eligible(flashcards[i])
    /\ SetStore(handleGenerateImage(Store, Get(flashcards[i], "id"),
                                    Get(flashcards[i], "text"), 0))
    /\ download' = NoArtifact
    /\ UNCHANGED <<importUrl, isImportingUrl, runs, reads, fetches, mounted>>
    /\ UNCHANGED <<parsing, jobs>>

\* a click on Generate All Missing: the handler captures the collection of
\* the current render and runs to its first await, or to its end
GenerateAllClick ==
    /\ NoJobPending
    /\ mounted
    /\ BagCardinality(requests) < MaxOutstanding
    /\ \E r \in 1..MaxRuns :
          /\ runs[r].pc = "idle"
          /\ \A k \in 1..(r - 1) : runs[k].pc # "idle"
          /\ LET new == [IdleRun EXCEPT !.snap = flashcards]
                 res == handleGenerateAll(Store, new, r, 0)
             IN /\ runs' = [runs EXCEPT ![r] = res.run]
                /\ SetStore(res.st)
    /\ download' = NoArtifact
    /\ UNCHANGED <<importUrl, isImportingUrl, reads, fetches, mounted>>
    /\ UNCHANGED <<parsing, jobs>>

\* an outstanding call resolves or rejects and handleGenerateImage resumes
\* after its await (lines 41-54).  When a bulk run awaits this
\* handleGenerateImage, the resumption of its loop is queued as a promise job.
Resolve(q, outcome) ==
    /\ BagIn(q, requests)
    /\ SetStore(Completion(Store, q, outcome))
    /\ IF q.run = 0
       THEN UNCHANGED <<runs, jobs>>
       ELSE /\ runs' = [runs EXCEPT ![q.run].pc = "resume"]
            /\ jobs' = Append(jobs, q.run)
    /\ download' = NoArtifact
    /\ UNCHANGED <<importUrl, isImportingUrl, reads, fetches, parsing, mounted>>

\* the first promise job queued: the loop of handleGenerateAll resumes after
\* its await (line 60) and runs to its next await, or to its end
Resume ==
    /\ jobs # <<>>
    /\ LET r == Head(jobs)
           res == handleGenerateAll(Store, runs[r], r, runs[r].pos)
       IN /\ runs' = [runs EXCEPT ![r] = res.run]
          /\ SetStore(res.st)
    /\ jobs' = Tail(jobs)
    /\ download' = NoArtifact
    /\ UNCHANGED <<importUrl, isImportingUrl, reads, fetches, parsing, mounted>>

----------------------------------------------------------------------------
(* Export and import *)

\* handleExport without lines 66-69, the test for an empty collection
handleExport_NoEmptyTest ==
    /\ NoJobPending
    /\ mounted
    /\ download' = JSONstringify(flashcards)
    /\ UNCHANGED <<flashcards, error, importUrl, isImportingUrl, requests, runs, reads,
                   fetches, mounted>>
    /\ UNCHANGED <<parsing, jobs>>

\* handleExport
handleExport ==
    /\ NoJobPending
    /\ mounted
    /\ IF Len(flashcards) = 0
       THEN /\ error' = Msg("export", "")
            /\ download' = NoArtifact
       ELSE /\ download' = JSONstringify(flashcards)
            /\ UNCHANGED error
    /\ UNCHANGED <<flashcards, importUrl, isImportingUrl, requests, runs, reads, fetches,
                   mounted>>
    /\ UNCHANGED <<parsing, jobs>>

\* the documents a file may hold or a URL may answer with
DocLoading ==
    Arr(<<Obj([id |-> Lit("string", "sounds/apple.mp3"), text |-> Lit("string", "Apple"),
               imageUrl |-> Lit("null", ""), isLoading |-> Lit("bool", "true")])>>)
DocMinimal ==
    Arr(<<Obj([id |-> Lit("string", "cat"), text |-> Lit("string", "Cat")])>>)
DocBigNumber ==
    Arr(<<Obj([id |-> Lit("number", "1e999"), text |-> Lit("string", "Big"),
               imageUrl |-> Lit("string", "big.png")])>>)
DocTwins ==
    Arr(<<Obj([id |-> Lit("string", "dog"), text |-> Lit("string", "Dog"),
               imageUrl |-> Lit("null", ""), isLoading |-> Lit("bool", "false")]),
          Obj([id |-> Lit("string", "dog"), text |-> Lit("string", "Dog!"),
               imageUrl |-> Lit("string", "dog.png"), isLoading |-> Lit("bool", "false")])>>)
DocEmpty == Arr(<<>>)
DocNoText == Arr(<<Obj([id |-> Lit("string", "a")])>>)
DocNoId ==
    Arr(<<Obj([id |-> Lit("number", "7"), text |-> Lit("string", "Seven")]),
          Obj([text |-> Lit("string", "Apple")])>>)
DocNullElem == Arr(<<NullElem>>)

ValidDocs == {DocLoading, DocMinimal, DocBigNumber, DocTwins, DocEmpty}
InvalidDocs == {Malformed, NonArray, DocNoText, DocNoId, DocNullElem}
Docs == ValidDocs \cup InvalidDocs

\* handleImport: no file picked returns at once; otherwise a read starts
handleImport(picked) ==
    /\ NoJobPending
    /\ mounted
    /\ IF ~picked
       THEN UNCHANGED reads
       ELSE /\ reads < MaxReads
            /\ reads' = reads + 1
    /\ download' = NoArtifact
    /\ UNCHANGED <<flashcards, error, importUrl, isImportingUrl, requests, runs, fetches,
                   mounted>>
    /\ UNCHANGED <<parsing, jobs>>

\* reader.onload of a pending read, the file holding `text`
readerOnLoad(text) ==
    /\ NoJobPending
    /\ reads > 0
    /\ reads' = reads - 1
    /\ LET outcome == ImportOutcome(text)
       IN IF outcome = "ok"
          THEN /\ flashcards' = JSONparse(text)
               /\ error' = NoError
          ELSE /\ error' = Msg("importFile", outcome)
               /\ UNCHANGED flashcards
    /\ download' = NoArtifact
    /\ UNCHANGED <<importUrl, isImportingUrl, requests, runs, fetches, mounted>>
    /\ UNCHANGED <<parsing, jobs>>

\* reader.onerror of a pending read
readerOnError ==
    /\ NoJobPending
    /\ reads > 0
    /\ reads' = reads - 1
    /\ error' = Msg("readFile", "")
    /\ download' = NoArtifact
    /\ UNCHANGED <<flashcards, importUrl, isImportingUrl, requests, runs, fetches,
                   mounted>>
    /\ UNCHANGED <<parsing, jobs>>

\* onChange of the URL input
setImportUrl(u) ==
    /\ NoJobPending
    /\ mounted
    /\ importUrl' = u
    /\ download' = NoArtifact
    /\ UNCHANGED <<flashcards, error, isImportingUrl, requests, runs, reads, fetches,
                   mounted>>
    /\ UNCHANGED <<parsing, jobs>>

\* handleImportFromUrl up to its await of fetch (the button, or Enter in the input)
handleImportFromUrl ==
    /\ NoJobPending
    /\ mounted
    /\ IF importUrl = ""
       THEN /\ error' = Msg("urlEmpty", "")
            /\ UNCHANGED <<isImportingUrl, fetches>>
       ELSE /\ fetches + parsing < MaxFetches
            /\ isImportingUrl' = TRUE
            /\ error' = NoError
            /\ fetches' = fetches + 1
    /\ download' = NoArtifact
    /\ UNCHANGED <<flashcards, importUrl, requests, runs, reads, mounted>>
    /\ UNCHANGED <<parsing, jobs>>

\* the ways a fetch can end other than with a body: fetch rejects, or the
\* response is not ok
TransportFailures == {"network", "status"}

\* handleImportFromUrl from its await of fetch (line 128) to its await of
\* response.json() (line 132), or to its end when fetch rejected or the
\* response is not ok
fetchSettled(failure) ==
    /\ NoJobPending
    /\ fetches > 0
    /\ fetches' = fetches - 1
    /\ IF failure \in TransportFailures
       THEN /\ error' = Msg("importUrl", failure)
            /\ isImportingUrl' = FALSE
            /\ UNCHANGED parsing
       ELSE /\ parsing' = parsing + 1
            /\ UNCHANGED <<error, isImportingUrl>>
    /\ download' = NoArtifact
    /\ UNCHANGED <<flashcards, importUrl, requests, runs, reads, jobs, mounted>>

\* handleImportFromUrl from its await of response.json() to its end: the
\* body has arrived and is parsed, or does not parse
jsonSettled(body) ==
    /\ NoJobPending
    /\ parsing > 0
    /\ parsing' = parsing - 1
    /\ isImportingUrl' = FALSE
    /\ IF ImportOutcome(body) = "ok"
       THEN /\ flashcards' = JSONparse(body)
            /\ importUrl' = ""
            /\ UNCHANGED error
       ELSE /\ error' = Msg("importUrl", ImportOutcome(body))
            /\ UNCHANGED <<flashcards, importUrl>>
    /\ download' = NoArtifact
    /\ UNCHANGED <<requests, runs, reads, fetches, jobs, mounted>>

----------------------------------------------------------------------------
(* The pronunciation comparator.  A text is a sequence of characters. *)

Letters == {"a", "b", "d", "e", "l", "r"}
Capitals == {"A", "B", "D", "E", "L", "R"}

\* \s of a regular expression
IsSpace(c) == c \in {" ", "\t", "\n"}

\* \w of a regular expression
IsWordChar(c) == c \in Letters \cup Capitals \cup {"0", "7", "_"}

\* toLowerCase of one character
LowerChar(c) ==
    CASE c = "A" -> "a" [] c = "B" -> "b" [] c = "D" -> "d"
      [] c = "E" -> "e" [] c = "L" -> "l" [] c = "R" -> "r"
      [] OTHER -> c

toLowerCase(s) == [i \in 1..Len(s) |-> LowerChar(s[i])]

\* the replacement keeping the apostrophe: s.replace(/[^\w\s']/g, '')
StripPunctuation_KeepsApostrophe(s) ==
    SelectSeq(s, LAMBDA c : IsWordChar(c) \/ IsSpace(c) \/ c = "'")

\* s.replace(/[^\w\s']|'/g, ''): what is neither a word character, white
\* space nor an apostrophe goes, and the apostrophe goes too
StripPunctuation(s) == SelectSeq(s, LAMBDA c : IsWordChar(c) \/ IsSpace(c))

\* s.split(/\s+/).filter(Boolean): the maximal runs of characters that are
\* not white space, in order
RECURSIVE SplitFrom(_, _, _)
SplitFrom(s, i, word) ==
    IF i > Len(s) THEN (IF word = <<>> THEN <<>> ELSE <<word>>)
    ELSE IF IsSpace(s[i])
         THEN (IF word = <<>> THEN <<>> ELSE <<word>>) \o SplitFrom(s, i + 1, <<>>)
         ELSE SplitFrom(s, i + 1, Append(word, s[i]))

SplitWords(s) == SplitFrom(s, 1, <<>>)

\* comparePronunciation showing the normalized words instead of the words
\* of the reference text
comparePronunciation_ShowsNormalized(originalText, spokenText) ==
    LET originalDisplayWords == SplitWords(originalText)
        originalComparisonWords ==
            [i \in 1..Len(originalDisplayWords) |->
                StripPunctuation(toLowerCase(originalDisplayWords[i]))]
        spokenComparisonWords == SplitWords(StripPunctuation(toLowerCase(spokenText)))
        spokenWordSet == {spokenComparisonWords[i] : i \in 1..Len(spokenComparisonWords)}
    IN [i \in 1..Len(originalDisplayWords) |->
           [word |-> originalComparisonWords[i],
            isCorrect |-> originalComparisonWords[i] \in spokenWordSet]]

\* comparePronunciation comparing word by word, each reference word with the
\* spoken word at the same place
comparePronunciation_Positional(originalText, spokenText) ==
    LET originalDisplayWords == SplitWords(originalText)
        originalComparisonWords ==
            [i \in 1..Len(originalDisplayWords) |->
                StripPunctuation(toLowerCase(originalDisplayWords[i]))]
        spokenComparisonWords == SplitWords(StripPunctuation(toLowerCase(spokenText)))
    IN [i \in 1..Len(originalDisplayWords) |->
           [word |-> originalDisplayWords[i],
            isCorrect |-> /\ i <= Len(spokenComparisonWords)
                          /\ originalComparisonWords[i] = spokenComparisonWords[i]]]

\* comparePronunciation without the filter(Boolean) of line 48: the split
\* of the normalized transcript keeps the empty string before leading and
\* after trailing white space, and for an empty transcript
comparePronunciation_KeepsEmptyTokens(originalText, spokenText) ==
    LET originalDisplayWords == SplitWords(originalText)
        originalComparisonWords ==
            [i \in 1..Len(originalDisplayWords) |->
                StripPunctuation(toLowerCase(originalDisplayWords[i]))]
        normalized == StripPunctuation(toLowerCase(spokenText))
        spokenComparisonWords == SplitWords(normalized)
        spokenWordSet ==
            {spokenComparisonWords[i] : i \in 1..Len(spokenComparisonWords)}
                \cup (IF \/ normalized = <<>>
                          \/ IsSpace(normalized[1])
                          \/ IsSpace(normalized[Len(normalized)])
                       THEN {<<>>} ELSE {})
    IN [i \in 1..Len(originalDisplayWords) |->
           [word |-> originalDisplayWords[i],
            isCorrect |-> originalComparisonWords[i] \in spokenWordSet]]

comparePronunciation(originalText, spokenText) ==
    LET originalDisplayWords == SplitWords(originalText)
        originalComparisonWords ==
            [i \in 1..Len(originalDisplayWords) |->
                StripPunctuation(toLowerCase(originalDisplayWords[i]))]
        spokenComparisonWords == SplitWords(StripPunctuation(toLowerCase(spokenText)))
        spokenWordSet == {spokenComparisonWords[i] : i \in 1..Len(spokenComparisonWords)}
    IN [i \in 1..Len(originalDisplayWords) |->
           [word |-> originalDisplayWords[i],
            isCorrect |-> originalComparisonWords[i] \in spokenWordSet]]

----------------------------------------------------------------------------
(* The speech capture controller of one card *)

\* item.text of the card
itemText == <<"R", "e", "d", " ", "b", "a", "l", "l", "!">>

\* the transcripts the recognition service may deliver
Transcripts == {<<"b", "a", "l", "l", " ", "r", "e", "d">>, <<"b", "e", "d">>, <<>>}

\* event.error of a SpeechRecognitionErrorEvent
ErrorCodes == {"not-allowed", "permission-denied", "no-speech", "network"}

\* a session is Active from recognition.start() to its end event
Active(s) == sessions[s].st \in {"starting", "running"}

NoClick == [recording |-> FALSE, stopped |-> 0, started |-> 0]

\* handlePracticeClick without lines 58-61, the test of
\* isSpeechRecognitionSupported
handlePracticeClick_NoSupportTest ==
    IF isRecording
    THEN /\ sessions' = IF recognitionRef = 0 THEN sessions
                        ELSE [sessions EXCEPT ![recognitionRef].stopRequested = TRUE]
         /\ lastClick' = [recording |-> TRUE, stopped |-> recognitionRef, started |-> 0]
         /\ UNCHANGED <<supported, isRecording, userTranscript, comparisonResult,
                        practiceError, recognitionRef>>
    ELSE \E s \in 1..MaxSessions :
         /\ sessions[s].st = "unused"
         /\ \A k \in 1..(s - 1) : sessions[k].st # "unused"
         /\ practiceError' = NoError
         /\ userTranscript' = <<>>
         /\ comparisonResult' = <<>>
         /\ recognitionRef' = s
         /\ sessions' = [sessions EXCEPT ![s].st = "starting"]
         /\ lastClick' = [recording |-> FALSE, stopped |-> 0, started |-> s]
         /\ UNCHANGED <<supported, isRecording>>

handlePracticeClick ==
    IF ~supported
    THEN /\ practiceError' = Msg("unsupported", "")
         /\ lastClick' = NoClick
         /\ UNCHANGED <<supported, isRecording, userTranscript, comparisonResult,
                        recognitionRef, sessions>>
    ELSE IF isRecording
    THEN \* recognitionRef.current?.stop()
         /\ sessions' = IF recognitionRef = 0 THEN sessions
                        ELSE [sessions EXCEPT ![recognitionRef].stopRequested = TRUE]
         /\ lastClick' = [recording |-> TRUE, stopped |-> recognitionRef, started |-> 0]
         /\ UNCHANGED <<supported, isRecording, userTranscript, comparisonResult,
                        practiceError, recognitionRef>>
    ELSE \E s \in 1..MaxSessions :
         /\ sessions[s].st = "unused"
         /\ \A k \in 1..(s - 1) : sessions[k].st # "unused"
         /\ practiceError' = NoError
         /\ userTranscript' = <<>>
         /\ comparisonResult' = <<>>
         /\ recognitionRef' = s
         /\ sessions' = [sessions EXCEPT ![s].st = "starting"]
         /\ lastClick' = [recording |-> FALSE, stopped |-> 0, started |-> s]
         /\ UNCHANGED <<supported, isRecording>>

\* recognition.onstart
onstart(s) ==
    /\ sessions[s].st = "starting"
    /\ ~sessions[s].delivered
    /\ sessions' = [sessions EXCEPT ![s].st = "running"]
    /\ isRecording' = TRUE
    /\ UNCHANGED <<supported, userTranscript, comparisonResult, practiceError,
                   recognitionRef, lastClick>>

\* recognition.onresult, with event.results[0][0].transcript
onresult(s, transcript) ==
    /\ sessions[s].st = "running"
    /\ ~sessions[s].delivered
    /\ sessions' = [sessions EXCEPT ![s].delivered = TRUE]
    /\ userTranscript' = <<transcript>>
    /\ comparisonResult' = <<comparePronunciation(itemText, transcript)>>
    /\ UNCHANGED <<supported, isRecording, practiceError, recognitionRef, lastClick>>

\* recognition.onerror, with event.error
onerror(s, code) ==
    /\ Active(s)
    /\ ~sessions[s].delivered
    /\ sessions' = [sessions EXCEPT ![s].delivered = TRUE]
    /\ practiceError' =
          IF code \in {"not-allowed", "permission-denied"} THEN Msg("microphone", "")
          ELSE IF code = "no-speech" THEN Msg("no-speech", "")
          ELSE Msg("other", code)
    /\ UNCHANGED <<supported, isRecording, userTranscript, comparisonResult,
                   recognitionRef, lastClick>>

\* recognition.onend: the end event closes every session.  It comes after
\* the session's start event, after an error that came before it, or with
\* neither (the platform ends a session when another one is started)
onend(s) ==
    /\ Active(s)
    /\ sessions' = [sessions EXCEPT ![s].st = "ended"]
    /\ isRecording' = FALSE
    /\ recognitionRef' = 0
    /\ UNCHANGED <<supported, userTranscript, comparisonResult, practiceError, lastClick>>

----------------------------------------------------------------------------

InitApp ==
    /\ flashcards = <<>>
    /\ error = NoError
    /\ importUrl = ""
    /\ isImportingUrl = FALSE
    /\ requests = EmptyBag
    /\ runs = [r \in 1..MaxRuns |-> IdleRun]
    /\ reads = 0
    /\ fetches = 0
    /\ parsing = 0
    /\ jobs = <<>>
    /\ download = NoArtifact
    /\ mounted = FALSE

InitCard ==
    /\ isRecording = FALSE
    /\ userTranscript = <<>>
    /\ comparisonResult = <<>>
    /\ practiceError = NoError
    /\ recognitionRef = 0
    /\ sessions = [s \in 1..MaxSessions |->
                      [st |-> "unused", delivered |-> FALSE, stopRequested |-> FALSE]]
    /\ lastClick = NoClick

\* the comparator not in use
InitIdleCompare ==
    /\ cmpOriginalText = <<>>
    /\ cmpSpokenText = <<>>
    /\ cmpResult = <<>>
    /\ cmpPrevious = <<>>

\* The App: the store, generation, export and import
Init == InitApp /\ InitCard /\ supported = TRUE /\ InitIdleCompare

Next ==
    \/ MountEffect /\ UNCHANGED <<cardVars, cmpVars>>
    \/ \E i \in 1..Len(flashcards) : handleGenerateClick(i) /\ UNCHANGED <<cardVars, cmpVars>>
    \/ GenerateAllClick /\ UNCHANGED <<cardVars, cmpVars>>
    \/ \E q \in BagToSet(requests) : \E outcome \in Images \cup {"rejected"} :
          Resolve(q, outcome) /\ UNCHANGED <<cardVars, cmpVars>>
    \/ Resume /\ UNCHANGED <<cardVars, cmpVars>>
    \/ handleExport /\ UNCHANGED <<cardVars, cmpVars>>
    \/ \E picked \in BOOLEAN : handleImport(picked) /\ UNCHANGED <<cardVars, cmpVars>>
    \/ \E text \in Docs : readerOnLoad(text) /\ UNCHANGED <<cardVars, cmpVars>>
    \/ readerOnError /\ UNCHANGED <<cardVars, cmpVars>>
    \/ \E u \in {"", "https://decks.example/deck.json"} :
          setImportUrl(u) /\ UNCHANGED <<cardVars, cmpVars>>
    \/ handleImportFromUrl /\ UNCHANGED <<cardVars, cmpVars>>
    \/ \E failure \in TransportFailures \cup {"none"} :
          fetchSettled(failure) /\ UNCHANGED <<cardVars, cmpVars>>
    \/ \E body \in Docs : jsonSettled(body) /\ UNCHANGED <<cardVars, cmpVars>>

Spec == Init /\ [][Next]_vars

\* The App without bulk generation: the import and export handlers next to
\* per-card generation
NextImport ==
    \/ MountEffect /\ UNCHANGED <<cardVars, cmpVars>>
    \/ \E i \in 1..Len(flashcards) : handleGenerateClick(i) /\ UNCHANGED <<cardVars, cmpVars>>
    \/ \E q \in BagToSet(requests) : \E outcome \in Images \cup {"rejected"} :
          Resolve(q, outcome) /\ UNCHANGED <<cardVars, cmpVars>>
    \/ handleExport /\ UNCHANGED <<cardVars, cmpVars>>
    \/ \E picked \in BOOLEAN : handleImport(picked) /\ UNCHANGED <<cardVars, cmpVars>>
    \/ \E text \in Docs : readerOnLoad(text) /\ UNCHANGED <<cardVars, cmpVars>>
    \/ readerOnError /\ UNCHANGED <<cardVars, cmpVars>>
    \/ \E u \in {"", "https://decks.example/deck.json"} :
          setImportUrl(u) /\ UNCHANGED <<cardVars, cmpVars>>
    \/ handleImportFromUrl /\ UNCHANGED <<cardVars, cmpVars>>
    \/ \E failure \in TransportFailures \cup {"none"} :
          fetchSettled(failure) /\ UNCHANGED <<cardVars, cmpVars>>
    \/ \E body \in Docs : jsonSettled(body) /\ UNCHANGED <<cardVars, cmpVars>>

SpecImport == Init /\ [][NextImport]_vars

\* One Card: the practice button and the callbacks of its sessions
InitPractice == InitApp /\ InitCard /\ supported \in BOOLEAN /\ InitIdleCompare

NextPractice ==
    \/ handlePracticeClick /\ UNCHANGED <<appVars, cmpVars>>
    \/ \E s \in 1..MaxSessions : onstart(s) /\ UNCHANGED <<appVars, cmpVars>>
    \/ \E s \in 1..MaxSessions : \E t \in Transcripts : onresult(s, t) /\ UNCHANGED <<appVars, cmpVars>>
    \/ \E s \in 1..MaxSessions : \E code \in ErrorCodes : onerror(s, code) /\ UNCHANGED <<appVars, cmpVars>>
    \/ \E s \in 1..MaxSessions : onend(s) /\ UNCHANGED <<appVars, cmpVars>>

SpecPractice == InitPractice /\ [][NextPractice]_vars

----------------------------------------------------------------------------
(* The comparator on its own: every reference text and transcript up to the *)
(* bounds, compared, and the transcript then rearranged and compared again. *)

\* the characters of the reference texts and of the transcripts
\* (a capital and a small letter, a letter outside ASCII, punctuation, the
\* apostrophe and the space)
RefAlphabet == {"A", "b", "é", ",", "'", " "}
SpokenAlphabet == {"a", "B", "'", " "}

TextsOver(alphabet, n) == UNION {[1..k -> alphabet] : k \in 0..n}

\* words.join(' ')
RECURSIVE JoinWords(_)
JoinWords(words) ==
    IF words = <<>> THEN <<>>
    ELSE IF Len(words) = 1 THEN words[1]
    ELSE words[1] \o <<" ">> \o JoinWords(Tail(words))

\* the call comparePronunciation(item.text, transcript)
Compare ==
    /\ cmpResult = <<>>
    /\ cmpResult' = <<comparePronunciation(cmpOriginalText, cmpSpokenText)>>
    /\ UNCHANGED <<cmpOriginalText, cmpSpokenText, cmpPrevious>>

\* the same words spoken again with two of them exchanged, and compared
SpeakSwapped(i, j) ==
    /\ cmpResult # <<>>
    /\ LET words == SplitWords(cmpSpokenText)
       IN /\ i \in 1..Len(words) /\ j \in 1..Len(words) /\ i < j
          /\ cmpSpokenText' = JoinWords([words EXCEPT ![i] = words[j], ![j] = words[i]])
    /\ Len(cmpSpokenText') <= MaxSpokenLen
    /\ cmpResult' = <<comparePronunciation(cmpOriginalText, cmpSpokenText')>>
    /\ cmpPrevious' = <<[spokenText |-> cmpSpokenText, result |-> cmpResult[1]]>>
    /\ UNCHANGED cmpOriginalText

\* the same words spoken again with one of them repeated, and compared
SpeakRepeated(i) ==
    /\ cmpResult # <<>>
    /\ LET words == SplitWords(cmpSpokenText)
       IN /\ i \in 1..Len(words)
          /\ cmpSpokenText' = JoinWords(Append(words, words[i]))
    /\ Len(cmpSpokenText') <= MaxSpokenLen
    /\ cmpResult' = <<comparePronunciation(cmpOriginalText, cmpSpokenText')>>
    /\ cmpPrevious' = <<[spokenText |-> cmpSpokenText, result |-> cmpResult[1]]>>
    /\ UNCHANGED cmpOriginalText

InitCompare ==
    /\ InitApp /\ InitCard /\ supported = TRUE
    /\ cmpOriginalText \in TextsOver(RefAlphabet, MaxRefLen)
    /\ cmpSpokenText \in TextsOver(SpokenAlphabet, MaxSpokenLen)
    /\ cmpResult = <<>>
    /\ cmpPrevious = <<>>

NextCompare ==
    \/ Compare /\ UNCHANGED <<appVars, cardVars>>
    \/ \E i \in 1..MaxSpokenLen : \E j \in 1..MaxSpokenLen :
          SpeakSwapped(i, j) /\ UNCHANGED <<appVars, cardVars>>
    \/ \E i \in 1..MaxSpokenLen : SpeakRepeated(i) /\ UNCHANGED <<appVars, cardVars>>

SpecCompare == InitCompare /\ [][NextCompare]_vars

----------------------------------------------------------------------------
(* Bulk runs on their own: a Generate All run starts when nothing is        *)
(* outstanding, and from its click to its end only its own calls complete; *)
(* clicks, export and imports happen between runs.                          *)

NoRunActive == \A r \in 1..MaxRuns : runs[r].pc = "idle"

NextBulk ==
    \/ NoRunActive /\ NextImport
    \/ /\ NoRunActive
       /\ requests = EmptyBag
       /\ GenerateAllClick
       /\ UNCHANGED <<cardVars, cmpVars>>
    \/ /\ ~NoRunActive
       /\ \E q \in BagToSet(requests) : \E outcome \in Images \cup {"rejected"} :
             Resolve(q, outcome)
       /\ UNCHANGED <<cardVars, cmpVars>>
    \/ Resume /\ UNCHANGED <<cardVars, cmpVars>>

SpecBulk == Init /\ [][NextBulk]_vars

----------------------------------------------------------------------------
(* Claims *)

\* the invocation is suspended at its await of line 60: its call is
\* outstanding, or has settled and the resumption of the loop is queued
Running(r) == runs[r].pc \in {"await", "resume"}

\* C1: at most one image-generation request is in flight for any card id,
\* under any interleaving of Generate clicks, Generate All clicks, imports
\* and completions.
C1_OneRequestPerId ==
    \A q1 \in BagToSet(requests) :
        /\ CopiesIn(q1, requests) = 1
        /\ \A q2 \in BagToSet(requests) : q1.id = q2.id => q1 = q2

\* C2: while a bulk generation is running, the image-generation collaborator
\* never has more than one call outstanding, whatever else interleaves.
C2_OneCallOutstanding ==
    (\E r \in 1..MaxRuns : Running(r)) => BagCardinality(requests) <= 1

\* C3: a bulk run calls the collaborator exactly once for each card that
\* lacks an image (every position of its collection that it does not skip,
\* once, in order), and never for a card that has an image or is loading in
\* the collection at the moment the run reaches it.
C3_OncePerMissingCard ==
    \A r \in 1..MaxRuns :
        Running(r) =>
            /\ \A a \in 1..Len(runs[r].calls) : \A b \in 1..Len(runs[r].calls) :
                  a < b => runs[r].calls[a] < runs[r].calls[b]
            /\ {runs[r].calls[a] : a \in 1..Len(runs[r].calls)}
                  = {j \in 1..runs[r].pos : Eligible(runs[r].snap[j])}
            /\ ~runs[r].seen.hadImage
            /\ ~runs[r].seen.wasLoading

\* C4: once a bulk run has completed, no card is left with isLoading = true
\* (the step on which a run returns leaves no card loading).
C4_NoCardLoadingAfterRun ==
    [][\A r \in 1..MaxRuns :
          (runs[r].pc = "resume" /\ runs'[r].pc = "idle")
              => \A i \in 1..Len(flashcards') : ~IsLoading(flashcards'[i])]_vars

\* C5: a card has isLoading = true only if a generation request for its id
\* is in flight.
C5_LoadingOnlyInFlight ==
    \A i \in 1..Len(flashcards) :
        IsLoading(flashcards[i])
            => \E q \in BagToSet(requests) : q.id = Get(flashcards[i], "id")

\* what C6 calls a source that must be rejected: it fails to parse, is not an
\* array, or holds an element without a defined id or a defined text
C6_Rejected(doc) ==
    \/ doc.kind = "malformed"
    \/ doc.kind # "array"
    \/ \E i \in 1..Len(doc.elems) :
          \/ doc.elems[i].kind = "null"
          \/ "id" \notin DOMAIN doc.elems[i].members
          \/ "text" \notin DOMAIN doc.elems[i].members

\* C6: an import, from a file or a URL, of a source that fails to parse, is
\* not a JSON array, holds an element lacking id or text, or (URL) comes with
\* a failed transport leaves the collection as it was and sets an error.
C6_FailedImportKeepsDeck ==
    [][/\ reads' < reads =>
             \A text \in Docs :
                 (C6_Rejected(text) /\ readerOnLoad(text))
                     => (flashcards' = flashcards /\ error' # NoError)
       /\ parsing' < parsing =>
             \A body \in Docs :
                 (C6_Rejected(body) /\ jsonSettled(body))
                     => (flashcards' = flashcards /\ error' # NoError)
       /\ (fetches' < fetches /\ parsing' = parsing) =>
             \A failure \in TransportFailures :
                 fetchSettled(failure)
                     => (flashcards' = flashcards /\ error' # NoError)]_vars

\* C6 witness: a rejected import has just left its message next to a deck
\* that generation had already changed
C6_Witness ==
    /\ error = Msg("importFile", "structure")
    /\ Len(flashcards) = 2
    /\ Truthy(Get(flashcards[1], "imageUrl"))

\* C7: exporting a non-empty collection and importing the exported JSON is
\* accepted and yields a collection equal to the one exported.
C7_RoundTrip ==
    download # NoArtifact =>
        /\ ImportOutcome(download) = "ok"
        /\ JSONparse(download) = flashcards

\* C8: at most one speech-capture session of the card is active (started
\* and not ended) at any time.
C8_OneActiveSession ==
    Cardinality({s \in 1..MaxSessions : Active(s)}) <= 1

\* C9: a Practice click while the controller is recording requests a stop
\* of the active session and starts no new session.
C9_ClickWhileRecordingStops ==
    lastClick.recording =>
        /\ lastClick.started = 0
        /\ lastClick.stopped # 0
        /\ sessions[lastClick.stopped].stopRequested

\* C10: while a session that has started is still active the controller is
\* not idle and its handle is not released; when it ends the controller is
\* idle and the handle is released.
C10_ActiveMeansRecording ==
    /\ \A s \in 1..MaxSessions :
          sessions[s].st = "running" => (isRecording /\ recognitionRef # 0)
    /\ (\A s \in 1..MaxSessions : ~Active(s)) => (~isRecording /\ recognitionRef = 0)

----------------------------------------------------------------------------
(* Claims about the comparator *)

\* the places <<first, last>> of the words of a text: its maximal runs of
\* characters that are not white space
WordSpans(text) ==
    {sp \in (1..Len(text)) \X (1..Len(text)) :
        /\ sp[1] <= sp[2]
        /\ \A k \in sp[1]..sp[2] : ~IsSpace(text[k])
        /\ (sp[1] = 1 \/ IsSpace(text[sp[1] - 1]))
        /\ (sp[2] = Len(text) \/ IsSpace(text[sp[2] + 1]))}

\* the set of the words of a text, as written
WordsOf(text) == {SubSeq(text, sp[1], sp[2]) : sp \in WordSpans(text)}

\* the isCorrect flags of a comparison result, in order
Flags(out) == [i \in 1..Len(out) |-> out[i].isCorrect]

\* C11: for all reference texts R and transcripts T, comparePronunciation(R, T)
\* has as many entries as R has non-empty whitespace-separated words, and its
\* word fields are those words, unmodified and in the original order (empty R
\* gives the empty sequence).
C11_WordsOfReference ==
    cmpResult # <<>> =>
        LET spans == WordSpans(cmpOriginalText)
            out == cmpResult[1]
        IN /\ Len(out) = Cardinality(spans)
           /\ \A sp \in spans :
                 LET k == Cardinality({o \in spans : o[1] <= sp[1]})
                 IN out[k].word = SubSeq(cmpOriginalText, sp[1], sp[2])

\* two words compared against a transcript that is not empty, one of them
\* written differently from its normalized form
C11_Witness ==
    /\ cmpResult # <<>>
    /\ cmpSpokenText # <<>>
    /\ Len(cmpResult[1]) = 2
    /\ \E i \in 1..2 :
          cmpResult[1][i].word # StripPunctuation(toLowerCase(cmpResult[1][i].word))

\* C12: the comparator is order-insensitive in the transcript: a transcript
\* with the same words in another order, or with a word repeated, gives the
\* same isCorrect flags for the same reference text.
C12_OrderInsensitive ==
    (cmpResult # <<>> /\ cmpPrevious # <<>>) =>
        (WordsOf(cmpPrevious[1].spokenText) = WordsOf(cmpSpokenText)
            => Flags(cmpResult[1]) = Flags(cmpPrevious[1].result))

\* a transcript of two different words spoken again in the other order, for
\* a reference text of which one word is marked correct and one incorrect
C12_Witness ==
    /\ cmpResult # <<>>
    /\ cmpPrevious # <<>>
    /\ cmpPrevious[1].spokenText # cmpSpokenText
    /\ Cardinality(WordsOf(cmpSpokenText)) = 2
    /\ WordsOf(cmpPrevious[1].spokenText) = WordsOf(cmpSpokenText)
    /\ \E i, j \in 1..Len(cmpResult[1]) :
          cmpResult[1][i].isCorrect /\ ~cmpResult[1][j].isCorrect

\* a word lowercased and left with its ASCII letters, digits and underscores
NormalizedWord(word) == SelectSeq(toLowerCase(word), IsWordChar)

\* the normalized words of a transcript that are not empty
NormalizedTokens(text) == {NormalizedWord(w) : w \in WordsOf(text)} \ {<<>>}

\* C13 (amended): for each word of the reference text, isCorrect is true if
\* and only if the word's normalized form (lowercased, with every character
\* other than ASCII letters, digits and underscore removed) is not empty and
\* is a member of the set of normalized tokens of the transcript; matching
\* ignores case and punctuation, and an empty transcript marks every word
\* incorrect.
C13_CorrectIffSpoken ==
    cmpResult # <<>> =>
        LET out == cmpResult[1]
        IN /\ \A i \in 1..Len(out) :
                 out[i].isCorrect <=>
                     /\ NormalizedWord(out[i].word) # <<>>
                     /\ NormalizedWord(out[i].word) \in NormalizedTokens(cmpSpokenText)
           /\ cmpSpokenText = <<>> => \A i \in 1..Len(out) : ~out[i].isCorrect

\* a word marked correct although it is written with other capitals or
\* punctuation than any word of the transcript, next to a word marked
\* incorrect
C13_Witness ==
    /\ cmpResult # <<>>
    /\ \E i, j \in 1..Len(cmpResult[1]) :
          /\ cmpResult[1][i].isCorrect
          /\ cmpResult[1][i].word \notin WordsOf(cmpSpokenText)
          /\ ~cmpResult[1][j].isCorrect

\* a letter, as the claim's words have it: of any alphabet
IsLetter(c) == c \in Letters \cup Capitals \cup {"é"}

\* a word lowercased and left with its letters, digits and underscores
NormalizedWordAsStated(word) ==
    SelectSeq(toLowerCase(word), LAMBDA c : IsLetter(c) \/ IsWordChar(c))

\* C13 (as stated): for each word of the reference text, isCorrect is true if
\* and only if the word's normalized form (lowercased, with every character
\* other than letters, digits and underscore removed) is a member of the set
\* of normalized tokens of the transcript.
C13_AsStated ==
    cmpResult # <<>> =>
        \A i \in 1..Len(cmpResult[1]) :
            cmpResult[1][i].isCorrect <=>
                NormalizedWordAsStated(cmpResult[1][i].word)
                    \in {NormalizedWordAsStated(w) : w \in WordsOf(cmpSpokenText)}

----------------------------------------------------------------------------
(* Claims about the capture controller and the store, continued *)

\* C14: when the platform has no speech-recognition capability, a Practice
\* action sets the "not supported" error and creates and starts no session:
\* the controller stays idle, the session handle stays null, and the
\* transcript and the comparison result are left unchanged.
C14_UnsupportedOnlyReports ==
    [][~supported =>
          /\ practiceError' = Msg("unsupported", "")
          /\ ~isRecording'
          /\ recognitionRef' = 0
          /\ \A s \in 1..MaxSessions : sessions'[s].st = "unused"
          /\ UNCHANGED <<isRecording, recognitionRef, sessions, userTranscript,
                         comparisonResult>>]_vars

\* a Practice action has been taken on a platform without the capability
C14_Witness ==
    /\ ~supported
    /\ practiceError = Msg("unsupported", "")

\* the places at which the collection differs after a step
Differing == {i \in 1..Len(flashcards) :
                 i > Len(flashcards') \/ flashcards'[i] # flashcards[i]}

\* C15: each of the three generation-state mutations (mark loading, store
\* image and clear loading, clear loading on failure) yields a collection in
\* which no item but the one targeted differs from before, with the number of
\* items and their order unchanged, for every collection the program can
\* hold.  (Without bulk runs a step that changes the outstanding requests is
\* one such mutation: the dispatch marks loading, the completion stores or
\* clears.)
C15_OneItemDiffers ==
    [][requests' # requests =>
          /\ Len(flashcards') = Len(flashcards)
          /\ Cardinality(Differing) <= 1]_vars

\* the places of the collection that hold a card of the given id
CardsOf(cards, id) == {i \in 1..Len(cards) : Get(cards[i], "id") = id}

\* C16: a per-card generation first marks the card loading; when the call
\* succeeds the card's imageUrl becomes the returned reference and isLoading
\* becomes false; when the call fails isLoading becomes false, imageUrl keeps
\* its prior value, an error message naming the card's text is set, and no
\* further call is made for that card by the same generation.
C16_PerCardGeneration ==
    [][requests' # requests =>
          /\ Len(flashcards') = Len(flashcards)
          /\ \A q \in BagToSet(requests') :
                requests' = requests (+) SetToBag({q}) =>
                    \* the dispatch: for a card that needs an image
                    /\ \E i \in CardsOf(flashcards, q.id) :
                          /\ Get(flashcards[i], "text") = q.prompt
                          /\ Eligible(flashcards[i])
                    /\ \A i \in CardsOf(flashcards', q.id) :
                          Get(flashcards'[i], "isLoading") = TrueV
          /\ \A q \in BagToSet(requests) :
                requests = requests' (+) SetToBag({q}) =>
                    \* the completion: the call is gone and none replaces it
                    \/ /\ \E imageUrl \in Images :
                             \A i \in CardsOf(flashcards', q.id) :
                                 /\ Get(flashcards'[i], "imageUrl") = imageUrl
                                 /\ Get(flashcards'[i], "isLoading") = FalseV
                       /\ error' = error
                    \/ /\ \A i \in CardsOf(flashcards', q.id) :
                             /\ Get(flashcards'[i], "imageUrl") = Get(flashcards[i], "imageUrl")
                             /\ Get(flashcards'[i], "isLoading") = FalseV
                       /\ error' = Msg("generate", q.prompt)]_vars

\* a generation has failed for one card and succeeded for another: the
\* first card is not loading, has no image and is named by the error, the
\* second has its image, and no call is outstanding
C16_Witness ==
    /\ requests = EmptyBag
    /\ \E i, j \in 1..Len(flashcards) :
          /\ error = Msg("generate", Get(flashcards[i], "text"))
          /\ Get(flashcards[i], "isLoading") = FalseV
          /\ ~Truthy(Get(flashcards[i], "imageUrl"))
          /\ Get(flashcards[j], "imageUrl") \in Images
          /\ Get(flashcards[j], "isLoading") = FalseV

\* the session started last, 0 before the first
NewestSession ==
    LET started == {s \in 1..MaxSessions : sessions[s].st # "unused"}
    IN IF started = {} THEN 0 ELSE CHOOSE s \in started : \A k \in started : k <= s

\* C17: starting a capture session clears the card's transcript, comparison
\* result and practice error: from the start of a session until that session
\* delivers its own result or error all three are null, so no value of an
\* earlier session is shown during a later one.
C17_ClearedUntilDelivery ==
    (NewestSession # 0 /\ Active(NewestSession) /\ ~sessions[NewestSession].delivered) =>
        /\ userTranscript = <<>>
        /\ comparisonResult = <<>>
        /\ practiceError = NoError

\* C18: export of an empty collection fails: it sets a user-visible error,
\* produces no downloadable artifact and leaves the (empty) collection
\* unchanged; export of a non-empty collection produces the artifact and does
\* not modify the collection.
C18_ExportEmptyFails ==
    [][/\ download' # NoArtifact => (flashcards # <<>> /\ flashcards' = flashcards)
       /\ handleExport =>
             /\ flashcards' = flashcards
             /\ flashcards = <<>> => (error' = Msg("export", "") /\ download' = NoArtifact)
             /\ flashcards # <<>> => download' # NoArtifact]_vars

\* an empty collection (imported) has been exported
C18_Witness ==
    /\ mounted
    /\ flashcards = <<>>
    /\ error = Msg("export", "")
    /\ download = NoArtifact

\* C19: when an import replaces the collection while a generation request
\* for id X is in flight, the request's completion changes only items of the
\* current (imported) collection whose id is X, and of those only imageUrl
\* and isLoading; it changes nothing when no such item exists, and it never
\* restores or re-inserts items of the replaced collection.  (Stated of every
\* completion, whatever the collection has become since the dispatch.)
C19_CompletionOnCurrentItems ==
    [][requests' # requests =>
          \A q \in BagToSet(requests) :
              requests = requests' (+) SetToBag({q}) =>
                  /\ Len(flashcards') = Len(flashcards)
                  /\ \A i \in 1..Len(flashcards) :
                        IF Get(flashcards[i], "id") = q.id
                        THEN \A k \in DOMAIN flashcards[i] \ {"imageUrl", "isLoading"} :
                                 Get(flashcards'[i], k) = Get(flashcards[i], k)
                        ELSE flashcards'[i] = flashcards[i]
                  /\ CardsOf(flashcards, q.id) = {} => flashcards' = flashcards]_vars

\* the imported one-card collection whose card arrived loading and without
\* an image now holds an image: the call dispatched for that id before the
\* import has completed after it
C19_Witness ==
    /\ Len(flashcards) = 1
    /\ Get(flashcards[1], "id") = "sounds/apple.mp3"
    /\ Get(flashcards[1], "imageUrl") \in Images
    /\ Get(flashcards[1], "isLoading") = FalseV

\* the call has failed: a card of its id is left without a generated image
FailedFor(q) ==
    \E i \in CardsOf(flashcards', q.id) : Get(flashcards'[i], "imageUrl") \notin Images

\* the call a run dispatched last
LastCall(r) ==
    Request(Get(runs[r].snap[runs[r].pos], "id"),
            Get(runs[r].snap[runs[r].pos], "text"), r)

\* C20: every dispatch of a per-card generation resets the global error
\* message to null (so a failure message for an earlier card is gone once the
\* next card's generation is dispatched), and after a bulk run with no other
\* interleaved actions the error message is non-null exactly when the last
\* call the run dispatched failed.
C20_ErrorOfLastCall ==
    [][(requests' # requests \/ runs' # runs) =>
          /\ \A q \in BagToSet(requests') :
                CopiesIn(q, requests') > CopiesIn(q, requests) => error' = NoError
          /\ \A r \in 1..MaxRuns :
                (runs[r].pc = "resume" /\ runs'[r].pc = "idle") =>
                    /\ error' # NoError <=> FailedFor(LastCall(r))
                    /\ error' # NoError => error' = Msg("generate", LastCall(r).prompt)]_vars

\* a bulk run whose first call failed is awaiting its second call: the
\* first card is idle without an image, and the error is null again
C20_Witness ==
    \E r \in 1..MaxRuns :
        /\ runs[r].pc = "await"
        /\ runs[r].calls = <<1, 2>>
        /\ Eligible(flashcards[1])
        /\ error = NoError

\* C21: a reference word whose normalized form is the empty string (a token
\* made only of punctuation or apostrophes) is marked incorrect for every
\* transcript: empty tokens are never members of the spoken token set.
C21_EmptyWordIncorrect ==
    cmpResult # <<>> =>
        \A i \in 1..Len(cmpResult[1]) :
            (\A k \in 1..Len(cmpResult[1][i].word) :
                 ~IsWordChar(cmpResult[1][i].word[k]))
                => ~cmpResult[1][i].isCorrect

\* a reference word made only of an apostrophe and a comma, compared with a
\* transcript that holds a word made only of apostrophes, next to a
\* reference word marked correct
C21_Witness ==
    /\ cmpResult # <<>>
    /\ <<"'">> \in WordsOf(cmpSpokenText)
    /\ \E i, j \in 1..Len(cmpResult[1]) :
          /\ cmpResult[1][i].word \in {<<"'", ",">>, <<",", "'">>, <<"'">>}
          /\ cmpResult[1][j].isCorrect

====
